---- MODULE Spec2Model ----
(***************************************************************************)
(* Model of mediawords/tm/stories.py: matching a url against the stories   *)
(* of the store (get_story_match, ignore_redirect, get_preferred_story)    *)
(* and adding a new story for a url (add_new_story, get_spider_feed,       *)
(* assign_date_guess_tag, create_download_for_new_story).                  *)
(*                                                                         *)
(* Strings are sequences of tokens.  Every token is one character, except  *)
(* "X1022", which stands for a run of 1022 'x' characters, so that urls    *)
(* longer than _MAX_URL_LENGTH exist in the model.  The urls of the model  *)
(* never have the run across the cut of a slice.                           *)
(***************************************************************************)
EXTENDS Integers, Sequences, FiniteSets, TLC

VARIABLES db, call, worker

vars == <<db, call, worker>>

----------------------------------------------------------------------------
(* Strings *)

_MAX_URL_LENGTH == 1024

_MAX_TITLE_LENGTH == 1024

_SPIDER_FEED_NAME == "Spider Feed"

\* Python's None where a string is expected (redirect_url, fallback_date).
None == <<"None">>

\* SQL NULL / Python None in media.dup_media_id; media ids start at 1.
NULL == 0

Weight(c) == IF c = "X1022" THEN 1022 ELSE 1

\* s[0:n]
RECURSIVE Slice(_, _)
Slice(s, n) ==
    IF s = <<>> \/ Weight(Head(s)) > n
    THEN <<>>
    ELSE <<Head(s)>> \o Slice(Tail(s), n - Weight(Head(s)))

\* re.sub('\x00', '', s)
RECURSIVE StripNul(_)
StripNul(s) ==
    IF s = <<>> THEN <<>>
    ELSE IF Head(s) = "NUL" THEN StripNul(Tail(s))
    ELSE <<Head(s)>> \o StripNul(Tail(s))

\* s.startswith(p)
StartsWith(s, p) == Len(s) >= Len(p) /\ SubSeq(s, 1, Len(p)) = p

Lower(c) == CASE c = "A" -> "a" [] c = "B" -> "b" [] OTHER -> c

\* mediawords.util.url.normalize_url_lossy: deterministic, total, idempotent;
\* here it lowercases the url.
normalize_url_lossy(url) == [i \in 1..Len(url) |-> Lower(url[i])]

\* mediawords.util.url.get_url_distinctive_domain: the first token of a url
\* is its host.
get_url_distinctive_domain(url) == IF url = <<>> THEN <<>> ELSE <<Lower(Head(url))>>

\* mediawords.util.url.get_url_host
get_url_host(url) == IF url = <<>> THEN <<>> ELSE <<Head(url)>>

\* mediawords.tm.media.generate_medium_url_and_name_from_url(url)[0]
generate_medium_url(url) == IF url = <<>> THEN <<>> ELSE <<Head(url)>>

----------------------------------------------------------------------------
(* The store: db is a record of tables, a table with a serial id is a      *)
(* sequence of rows whose i-th row has id i.                                *)

Rows(table) == {table[i] : i \in 1..Len(table)}

\* all orders in which a query without ORDER BY may return a set of rows
Orderings(S) ==
    {q \in [1..Cardinality(S) -> S] : \A i, j \in 1..Cardinality(S) : i # j => q[i] # q[j]}

\* db.create(table, row): the store appends the row under the next serial id
Create(table, id, row) == Append(table, row @@ (id :> Len(table) + 1))

\* what a call returns: a value (a sequence of at most one row), or the
\* exception it raised
Returned(row) == [status |-> "ok", value |-> <<row>>]

ReturnedNone == [status |-> "ok", value |-> <<>>]

Raised(exception) == [status |-> exception, value |-> <<>>]

----------------------------------------------------------------------------
(* get_preferred_story *)

\* select count(*) from story_sentences where stories_id = id
SentenceCount(d, id) == Cardinality({r \in d.story_sentences : r.stories_id = id})

\* The rows the query of _get_story_with_most_sentences may return: group by
\* stories_id, order by count(*) desc, limit 1.  A story without sentence
\* rows forms no group; among groups of equal count the store picks any.
MostSentencesQuery(d, ids) ==
    {s \in Rows(d.stories) :
        /\ s.stories_id \in ids
        /\ SentenceCount(d, s.stories_id) > 0
        /\ \A i \in ids : SentenceCount(d, i) <= SentenceCount(d, s.stories_id)}

\* mutant: the query is skipped and the first story returned
_get_story_with_most_sentences_first(d, stories) ==
    IF Len(stories) = 0 THEN {Raised("AssertionError")} ELSE {Returned(stories[1])}

\* the set of results _get_story_with_most_sentences may return
_get_story_with_most_sentences(d, stories) ==
    IF Len(stories) = 0 THEN {Raised("AssertionError")}
    ELSE IF Len(stories) = 1 THEN {Returned(stories[1])}
    ELSE LET found == MostSentencesQuery(d, {stories[i].stories_id : i \in 1..Len(stories)})
         IN  IF found # {} THEN {Returned(s) : s \in found}
             ELSE {Returned(stories[1])}

_url_domain_matches_medium(medium, urls) ==
    LET medium_domain == get_url_distinctive_domain(medium.url)
        story_domains == [i \in 1..Len(urls) |-> get_url_distinctive_domain(urls[i])]
    IN  \E i \in 1..Len(story_domains) : medium_domain = story_domains[i]

\* mutant: is_not_dup_source is 0 for a medium with a dup_media_id
MediumKey_dup_source_first(d, medium, story_urls) ==
    << IF \E x \in Rows(d.media) : x.dup_media_id = medium.media_id THEN 0 ELSE 1,
       IF medium.dup_media_id # NULL THEN 0 ELSE 1,
       IF _url_domain_matches_medium(medium, story_urls) THEN 0 ELSE 1,
       medium.media_id >>

\* the sort key of a medium: is_dup_target, is_not_dup_source, matches_domain, media_id
MediumKey(d, medium, story_urls) ==
    << IF \E x \in Rows(d.media) : x.dup_media_id = medium.media_id THEN 0 ELSE 1,
       IF medium.dup_media_id # NULL THEN 1 ELSE 0,
       IF _url_domain_matches_medium(medium, story_urls) THEN 0 ELSE 1,
       medium.media_id >>

\* a < b for the tuples sorted() compares
RECURSIVE TupleLess(_, _)
TupleLess(a, b) ==
    /\ a # <<>>
    /\ \/ Head(a) < Head(b)
       \/ Head(a) = Head(b) /\ TupleLess(Tail(a), Tail(b))

\* sorted_media[0]: the media of the stories, first by key
SortedMediaFirst(d, stories) ==
    LET story_urls == [i \in 1..Len(stories) |-> stories[i].url]
        media == {m \in Rows(d.media) : \E i \in 1..Len(stories) : stories[i].media_id = m.media_id}
    IN  CHOOSE m \in media :
            \A x \in media : x = m \/ TupleLess(MediumKey(d, m, story_urls), MediumKey(d, x, story_urls))

\* medium['stories']: the stories of the medium, in the order of the list
MediumStories(medium, stories) ==
    LET Test(s) == s.media_id = medium.media_id
    IN  SelectSeq(stories, Test)

\* the set of results get_preferred_story may return
get_preferred_story(d, stories) ==
    IF Len(stories) = 0 THEN {Raised("AssertionError")}
    ELSE IF Len(stories) = 1 THEN {Returned(stories[1])}
    ELSE _get_story_with_most_sentences(d, MediumStories(SortedMediaFirst(d, stories), stories))

----------------------------------------------------------------------------
(* ignore_redirect, get_story_match *)

\* mutant: the medium url is looked up as it is, not normalized
ignore_redirect_unnormalized(d, url, redirect_url) ==
    IF redirect_url = None \/ url = redirect_url THEN FALSE
    ELSE generate_medium_url(redirect_url) \in d.topic_ignore_redirects

ignore_redirect(d, url, redirect_url) ==
    IF redirect_url = None \/ url = redirect_url THEN FALSE
    ELSE LET medium_url == generate_medium_url(redirect_url)
             u == normalize_url_lossy(medium_url)
         IN  u \in d.topic_ignore_redirects

\* mutant: the normalized urls are left out of the list
MatchUrls_unnormalized(d, url, redirect_url) ==
    LET u == Slice(url, _MAX_URL_LENGTH)
        ru == IF ~ignore_redirect(d, url, redirect_url)
              THEN (IF redirect_url # None THEN Slice(redirect_url, _MAX_URL_LENGTH) ELSE u)
              ELSE <<>>
    IN  [u |-> u, ru |-> ru, nu |-> normalize_url_lossy(u), nru |-> normalize_url_lossy(ru),
         urls |-> {u, ru}]

\* u, ru, nu, nru and the list urls of get_story_match
MatchUrls(d, url, redirect_url) ==
    LET u == Slice(url, _MAX_URL_LENGTH)
        ru == IF ~ignore_redirect(d, url, redirect_url)
              THEN (IF redirect_url # None THEN Slice(redirect_url, _MAX_URL_LENGTH) ELSE u)
              ELSE <<>>
        nu == normalize_url_lossy(u)
        nru == normalize_url_lossy(ru)
    IN  [u |-> u, ru |-> ru, nu |-> nu, nru |-> nru, urls |-> {u, ru, nu, nru}]

\* the rows of the union query of get_story_match
MatchQuery(d, urls) ==
    {s \in Rows(d.stories) :
        /\ d.media[s.media_id].foreign_rss_links = FALSE
        /\ \/ s.url \in urls
           \/ s.guid \in urls
           \/ \E csu \in d.topic_seed_urls : csu.stories_id = s.stories_id /\ csu.url \in urls}

\* the set of <<stories, result>> get_story_match may come to: the query
\* returns its rows in any order
get_story_match(d, url, redirect_url) ==
    LET urls == MatchUrls(d, url, redirect_url).urls
    IN  UNION {{[stories |-> stories, ret |-> r] : r \in get_preferred_story(d, stories)} :
                  stories \in Orderings(MatchQuery(d, urls))}

----------------------------------------------------------------------------
(* add_new_story and what it calls *)

\* db.find_or_create(table, fields) for a table keyed by one serial id
FindOrCreate(table, id, fields) ==
    LET found == {i \in 1..Len(table) : \A k \in DOMAIN fields : table[i][k] = fields[k]}
    IN  IF found # {}
        THEN [table |-> table, row |-> table[CHOOSE i \in found : \A j \in found : i <= j]]
        ELSE [table |-> Create(table, id, fields), row |-> fields @@ (id :> Len(table) + 1)]

\* mediawords.tm.media.guess_medium: the medium of the url's medium url,
\* created when the store has none
guess_medium(d, url) ==
    LET medium_url == generate_medium_url(url)
        found == {m \in Rows(d.media) :
                     normalize_url_lossy(m.url) = normalize_url_lossy(medium_url)}
        created == Create(d.media, "media_id",
                          [url |-> medium_url, dup_media_id |-> NULL, foreign_rss_links |-> FALSE])
    IN  IF found # {}
        THEN [db |-> d, medium |-> CHOOSE m \in found : \A x \in found : m.media_id <= x.media_id]
        ELSE [db |-> [d EXCEPT !.media = created], medium |-> created[Len(created)]]

\* mediawords.tm.media.get_spidered_tag
get_spidered_tag(d) ==
    LET ts == FindOrCreate(d.tag_sets, "tag_sets_id", [name |-> "spidered"])
        t == FindOrCreate(d.tags, "tags_id",
                          [tag |-> <<"spidered">>, tag_sets_id |-> ts.row.tag_sets_id])
    IN  [db |-> [d EXCEPT !.tag_sets = ts.table, !.tags = t.table], tag |-> t.row]

\* mediawords.util.html.html_title(content, url, max_length)
html_title(content, url, max_length) == Slice(content.title, max_length)

\* mediawords.tm.guess_date.guess_date(url, content)
guess_date(url, content) == content.date_guess

\* the select of get_spider_feed
SpiderFeedSelect(d, medium) ==
    {f \in Rows(d.feeds) :
        f.media_id = medium.media_id /\ f.url = medium.url /\ f.name = _SPIDER_FEED_NAME}

\* the create of get_spider_feed
SpiderFeedCreate(d, medium) ==
    LET feeds == Create(d.feeds, "feeds_id",
                        [media_id |-> medium.media_id, url |-> medium.url,
                         name |-> _SPIDER_FEED_NAME, feed_status |-> "inactive"])
    IN  [db |-> [d EXCEPT !.feeds = feeds], feed |-> feeds[Len(feeds)]]

\* the set of outcomes of get_spider_feed run without interruption; .hash()
\* gives one of the rows selected
get_spider_feed(d, medium) ==
    IF SpiderFeedSelect(d, medium) # {}
    THEN {[db |-> d, feed |-> f] : f \in SpiderFeedSelect(d, medium)}
    ELSE {SpiderFeedCreate(d, medium)}

IsWord(c) == c \in {"h", "1", "p", "url", "tag", "text"}

\* the longest prefix of s matching \w*
RECURSIVE WordRun(_)
WordRun(s) ==
    IF s = <<>> \/ ~IsWord(Head(s)) THEN <<>> ELSE <<Head(s)>> \o WordRun(Tail(s))

\* re.search(r'\<(\w+)', s): group 1 of the leftmost match, <<>> when none
RECURSIVE SearchTag(_)
SearchTag(s) ==
    IF s = <<>> THEN <<>>
    ELSE IF Head(s) = "<" /\ WordRun(Tail(s)) # <<>> THEN WordRun(Tail(s))
    ELSE SearchTag(Tail(s))

\* mutant: a fallback date is looked at before the date guess
DateGuessTag_fallback_first(date_guess, fallback_date) ==
    IF fallback_date # None
    THEN [tag_set |-> "date_guess_method", tag |-> <<"fallback_date">>]
    ELSE IF date_guess.found
    THEN [tag_set |-> "date_guess_method", tag |-> <<"guess_by_unknown">>]
    ELSE [tag_set |-> "date_invalid", tag |-> <<"date_invalid">>]

\* the tag set and tag assign_date_guess_tag decides on
DateGuessTag(date_guess, fallback_date) ==
    IF date_guess.found
    THEN LET guess_method == date_guess.guess_method
         IN  IF StartsWith(guess_method, <<"Extracted from ", "url">>)
             THEN [tag_set |-> "date_guess_method", tag |-> <<"guess_by_url">>]
             ELSE IF StartsWith(guess_method, <<"Extracted from ", "tag">>)
             THEN LET match == SearchTag(guess_method)
                      html_tag == IF match # <<>> THEN match ELSE <<"unknown">>
                  IN  [tag_set |-> "date_guess_method", tag |-> <<"guess_by_tag_">> \o html_tag]
             ELSE [tag_set |-> "date_guess_method", tag |-> <<"guess_by_unknown">>]
    ELSE IF fallback_date # None
    THEN [tag_set |-> "date_guess_method", tag |-> <<"fallback_date">>]
    ELSE [tag_set |-> "date_invalid", tag |-> <<"date_invalid">>]

assign_date_guess_tag(d, story, date_guess, fallback_date) ==
    LET c == DateGuessTag(date_guess, fallback_date)
        ts == FindOrCreate(d.tag_sets, "tag_sets_id", [name |-> c.tag_set])
        t == FindOrCreate(d.tags, "tags_id", [tag |-> c.tag, tag_sets_id |-> ts.row.tag_sets_id])
    IN  [d EXCEPT !.tag_sets = ts.table, !.tags = t.table,
                  !.stories_tags_map = Append(@, [stories_id |-> story.stories_id,
                                                  tags_id |-> t.row.tags_id])]

create_download_for_new_story(d, story, feed) ==
    LET downloads == Create(d.downloads, "downloads_id",
                            [feeds_id |-> feed.feeds_id, stories_id |-> story.stories_id,
                             url |-> story.url, host |-> get_url_host(story.url),
                             type |-> "content", sequence |-> 1, state |-> "success",
                             path |-> "content:pending", priority |-> 1, extracted |-> "f"])
    IN  [db |-> [d EXCEPT !.downloads = downloads], download |-> downloads[Len(downloads)]]

\* mediawords.dbi.downloads.store_content: stores the content and updates the
\* download's row with where it is
store_content(d, download, content) ==
    [d EXCEPT !.downloads[download.downloads_id].state = "success",
              !.downloads[download.downloads_id].path = "content:stored"]

\* mutant: the null characters are left in url and guid
NewStory_with_nul(url, medium, title, date_guess, fallback_date) ==
    LET publish_date == IF date_guess.found THEN date_guess.date ELSE fallback_date
    IN  [url |-> url, guid |-> url, media_id |-> medium.media_id,
         collect_date |-> <<"now">>, title |-> StripNul(title), description |-> <<>>,
         publish_date |-> IF publish_date = None THEN <<"now">> ELSE publish_date]

\* the row add_new_story hands to db.create('stories', ...)
NewStory(url, medium, title, date_guess, fallback_date) ==
    LET publish_date == IF date_guess.found THEN date_guess.date ELSE fallback_date
    IN  [url |-> StripNul(url), guid |-> StripNul(url), media_id |-> medium.media_id,
         collect_date |-> <<"now">>, title |-> StripNul(title), description |-> <<>>,
         publish_date |-> IF publish_date = None THEN <<"now">> ELSE publish_date]

\* the set of outcomes [db, story] of add_new_story
add_new_story(d, url0, content, fallback_date) ==
    LET url == Slice(url0, _MAX_URL_LENGTH)
        gm == guess_medium(d, url)
    IN  { LET st == get_spidered_tag(sf.db)
              title == html_title(content, url, _MAX_TITLE_LENGTH)
              date_guess == guess_date(url, content)
              stories == Create(st.db.stories, "stories_id",
                                NewStory(url, gm.medium, title, date_guess, fallback_date))
              story == stories[Len(stories)]
              d1 == [st.db EXCEPT !.stories = stories,
                                  !.stories_tags_map =
                                      Append(@, [stories_id |-> story.stories_id,
                                                 tags_id |-> st.tag.tags_id])]
              d2 == assign_date_guess_tag(d1, story, date_guess, fallback_date)
              d3 == [d2 EXCEPT !.feeds_stories_map =
                                   Append(@, [stories_id |-> story.stories_id,
                                              feeds_id |-> sf.feed.feeds_id])]
              dl == create_download_for_new_story(d3, story, sf.feed)
          IN  [db |-> store_content(dl.db, dl.download, content), story |-> story]
          : sf \in get_spider_feed(gm.db, gm.medium) }

----------------------------------------------------------------------------
(* Bounds and inputs *)

\* add_new_story is called while the store has fewer downloads than this
MaxDownloads == 1

\* the longest candidate list handed to get_preferred_story directly
MaxCands == 3

\* the most story_sentences rows of an initial story
MaxSentences == 1

\* the workers that call get_spider_feed concurrently
NumWorkers == 2

UrlA == <<"a">>

UrlUpper == <<"A">>

UrlB == <<"b">>

UrlNul == <<"B", "NUL", "c">>

UrlLong == <<"b", "X1022", "c", "c">>

Urls == {UrlA, UrlUpper, UrlB, UrlNul, UrlLong}

TagNames == {<<"h", "1">>, <<"p">>}

\* the guess_method of a date found in the html tag of the name
ByTagMethod(name) == <<"Extracted from ", "tag", ":", "<">> \o name \o <<" ", ">">>

Found(guess_method) == [found |-> TRUE, guess_method |-> guess_method, date |-> <<"2019-05-05">>]

NotFound == [found |-> FALSE, guess_method |-> <<>>, date |-> None]

DateGuesses ==
    {Found(<<"Extracted from ", "url">>), Found(<<"Extracted from ", "tag", ":">>),
     Found(<<"Extracted from ", "text">>), NotFound}
    \cup {Found(ByTagMethod(n)) : n \in TagNames}

Contents == {[title |-> <<"t", "NUL">>, date_guess |-> g] : g \in DateGuesses}

FallbackDates == {None, <<"2020-01-01">>}

Workers == 1..NumWorkers

----------------------------------------------------------------------------
(* Initial stores *)

MediumRow(id, url, dup, foreign) ==
    [media_id |-> id, url |-> url, dup_media_id |-> dup, foreign_rss_links |-> foreign]

StoryRow(id, url, guid, media_id) ==
    [stories_id |-> id, url |-> url, guid |-> guid, media_id |-> media_id,
     collect_date |-> <<"then">>, title |-> <<"t">>, description |-> <<>>,
     publish_date |-> <<"2019-05-05">>]

\* the story_sentences rows of stories with the given counts
SentenceRows(counts) ==
    {r \in [stories_id : DOMAIN counts, sentence_number : 1..MaxSentences + 1] :
        r.sentence_number <= counts[r.stories_id]}

Store(media, stories, sentences, seeds, ignore) ==
    [media |-> media, stories |-> stories, story_sentences |-> sentences,
     topic_seed_urls |-> seeds, topic_ignore_redirects |-> ignore,
     feeds |-> <<>>, feeds_stories_map |-> <<>>, stories_tags_map |-> <<>>,
     downloads |-> <<>>, tag_sets |-> <<>>, tags |-> <<>>]

NoCall ==
    [op |-> "none", url |-> <<>>, redirect_url |-> None, flag |-> FALSE,
     m |-> [u |-> <<>>, ru |-> <<>>, nu |-> <<>>, nru |-> <<>>, urls |-> {}],
     stories |-> <<>>, ret |-> ReturnedNone,
     content |-> [title |-> <<>>, date_guess |-> NotFound], fallback_date |-> None]

Idle == [pc |-> "idle", media_id |-> NULL, ret |-> <<>>]

\* the urls, and the media they are of, of the stories initial stores hold
StoryTemplates == {<<UrlA, 1>>, <<UrlUpper, 1>>, <<UrlB, 2>>, <<Slice(UrlLong, _MAX_URL_LENGTH), 2>>}

\* stores for the lookups: up to two stories, the second medium foreign or
\* not, a seed url and an ignored redirect target or none
MatchStores ==
    {Store(<<MediumRow(1, UrlA, NULL, FALSE), MediumRow(2, UrlB, NULL, foreign)>>,
           [i \in 1..Len(ts) |-> StoryRow(i, ts[i][1], ts[i][1], ts[i][2])],
           SentenceRows([i \in 1..Len(ts) |-> IF i = 1 THEN 1 ELSE 0]),
           seeds, ignore) :
        foreign \in BOOLEAN,
        ts \in {<<>>} \cup {<<t>> : t \in StoryTemplates}
                \cup {<<t1, t2>> : t1 \in StoryTemplates, t2 \in StoryTemplates \ {<<UrlA, 1>>}},
        seeds \in {{}, {[url |-> UrlB, stories_id |-> 1]}},
        ignore \in {{}, {UrlB}}}

InitMatch ==
    /\ db \in {d \in MatchStores : \A csu \in d.topic_seed_urls : csu.stories_id <= Len(d.stories)}
    /\ call = NoCall
    /\ worker = [w \in Workers |-> Idle]

----------------------------------------------------------------------------
(* The calls *)

IgnoreRedirect(urls, redirects) ==
    \E url \in urls, redirect_url \in redirects :
        /\ call' = [NoCall EXCEPT !.op = "ignore_redirect", !.url = url,
                                  !.redirect_url = redirect_url,
                                  !.flag = ignore_redirect(db, url, redirect_url)]
        /\ UNCHANGED <<db, worker>>

\* mutant: a lookup that matches no story creates one for the url
GetStoryMatch_creating(urls, redirects) ==
    \E url \in urls, redirect_url \in redirects :
        \E out \in get_story_match(db, url, redirect_url) :
            /\ call' = [NoCall EXCEPT !.op = "get_story_match", !.url = url,
                                      !.redirect_url = redirect_url,
                                      !.m = MatchUrls(db, url, redirect_url),
                                      !.stories = out.stories, !.ret = out.ret]
            /\ db' = IF out.stories # <<>> THEN db
                     ELSE [db EXCEPT !.stories =
                               Create(@, "stories_id",
                                      [url |-> url, guid |-> url, media_id |-> 1,
                                       collect_date |-> <<"now">>, title |-> <<>>,
                                       description |-> <<>>, publish_date |-> <<"now">>])]
            /\ UNCHANGED worker

GetStoryMatch(urls, redirects) ==
    \E url \in urls, redirect_url \in redirects :
        \E out \in get_story_match(db, url, redirect_url) :
            /\ call' = [NoCall EXCEPT !.op = "get_story_match", !.url = url,
                                      !.redirect_url = redirect_url,
                                      !.m = MatchUrls(db, url, redirect_url),
                                      !.stories = out.stories, !.ret = out.ret]
            /\ UNCHANGED <<db, worker>>

NextMatch == IgnoreRedirect(Urls, Urls \cup {None}) \/ GetStoryMatch(Urls, Urls \cup {None})

SpecMatch == InitMatch /\ [][NextMatch]_vars

\* the lists of up to n different stories of the store
CandidateLists(d, n) ==
    UNION {Orderings(S) : S \in {T \in SUBSET Rows(d.stories) : 1 <= Cardinality(T) /\ Cardinality(T) <= n}}

GetPreferredStory(n) ==
    \E stories \in CandidateLists(db, n) :
        \E r \in get_preferred_story(db, stories) :
            /\ call' = [NoCall EXCEPT !.op = "get_preferred_story", !.stories = stories, !.ret = r]
            /\ UNCHANGED <<db, worker>>

AddNewStory(urls, contents, fallback_dates) ==
    /\ Len(db.downloads) < MaxDownloads
    /\ \E url \in urls, content \in contents, fallback_date \in fallback_dates :
           \E out \in add_new_story(db, url, content, fallback_date) :
               /\ db' = out.db
               /\ call' = [NoCall EXCEPT !.op = "add_new_story", !.url = url,
                                         !.content = content,
                                         !.fallback_date = fallback_date,
                                         !.ret = Returned(out.story)]
               /\ UNCHANGED worker

\* stores for adding stories: none or one story, an ignored redirect target
\* or none
SynthStores ==
    {Store(<<MediumRow(1, UrlA, NULL, FALSE)>>,
           [i \in 1..Len(ts) |-> StoryRow(i, ts[i][1], ts[i][1], ts[i][2])],
           {}, {}, ignore) :
        ts \in {<<>>, <<<<UrlA, 1>>>>},
        ignore \in {{}, {UrlB}}}

Init ==
    /\ db \in SynthStores
    /\ call = NoCall
    /\ worker = [w \in Workers |-> Idle]

Next ==
    \/ IgnoreRedirect({UrlA}, {None, UrlB})
    \/ GetStoryMatch({UrlA, UrlLong}, {None, UrlB})
    \/ GetPreferredStory(MaxCands)
    \/ AddNewStory({UrlA, UrlNul, UrlLong}, Contents, FallbackDates)

Spec == Init /\ [][Next]_vars

----------------------------------------------------------------------------
(* Claims about the lookups, checked under SpecMatch *)

\* C1 (as claimed): get_story_match never hands an empty list to
\* get_preferred_story: no lookup ends in the AssertionError of
\* len(stories) > 0, and a lookup whose query matched no story returns None.
C1_NoMatchReturnsNone ==
    call.op = "get_story_match" =>
        /\ call.ret.status = "ok"
        /\ call.stories = <<>> => call.ret = ReturnedNone

\* C6: ignore_redirect is false when redirect_url is None or equals url, and
\* otherwise true exactly when the normalized medium url of redirect_url is a
\* row of topic_ignore_redirects.
C6_IgnoreRedirect ==
    call.op = "ignore_redirect" =>
        IF call.redirect_url = None \/ call.redirect_url = call.url
        THEN call.flag = FALSE
        ELSE call.flag <=>
                 \E row \in db.topic_ignore_redirects :
                     row = normalize_url_lossy(generate_medium_url(call.redirect_url))

\* C6 witness: a redirect to an ignored medium, whose medium url needs
\* normalizing, was found ignored.
C6_Witness ==
    /\ call.op = "ignore_redirect"
    /\ call.flag = TRUE
    /\ generate_medium_url(call.redirect_url) \notin db.topic_ignore_redirects

\* the case of C8: no redirect, one story in the store, its medium not foreign
C8_Case(d, c) ==
    /\ c.op = "get_story_match"
    /\ c.redirect_url = None
    /\ Len(d.stories) = 1
    /\ d.media[d.stories[1].media_id].foreign_rss_links = FALSE

\* C8 (as claimed): with no redirect and one story, of a medium that is not
\* foreign, whose normalized url equals the normalized request url, the lookup
\* returns that story.
C8_NormalizedStoryMatches ==
    (C8_Case(db, call) /\ normalize_url_lossy(db.stories[1].url) = normalize_url_lossy(call.url))
        => call.ret = Returned(db.stories[1])

\* C8 (amended): with no redirect and one story, of a medium that is not
\* foreign, whose stored url equals the request url cut to 1024 characters
\* or the normalization of that, the lookup returns that story and changes
\* no table of the store.
C8_StoredUrlMatches ==
    [][(/\ C8_Case(db, call')
        /\ db.stories[1].url \in {Slice(call'.url, _MAX_URL_LENGTH),
                                  normalize_url_lossy(Slice(call'.url, _MAX_URL_LENGTH))})
           => (call'.ret = Returned(db.stories[1]) /\ db' = db)]_vars

\* C8 witness: the story was found by the normalization of the request url,
\* which differs from the request url.
C8_Witness ==
    /\ C8_Case(db, call)
    /\ db.stories[1].url = normalize_url_lossy(Slice(call.url, _MAX_URL_LENGTH))
    /\ db.stories[1].url # Slice(call.url, _MAX_URL_LENGTH)
    /\ call.ret = Returned(db.stories[1])

\* C9 (as claimed): ru is the cut url u when the redirect is ignored or
\* absent and the cut redirect_url otherwise; the urls queried are exactly
\* {u, ru, normalize(u), normalize(ru)}, at most 4, and nothing besides u and
\* normalize(u) when the redirect is ignored or absent.
C9_EffectiveRedirect ==
    call.op = "get_story_match" =>
        LET u == Slice(call.url, _MAX_URL_LENGTH)
            dropped == \/ call.redirect_url = None
                       \/ ignore_redirect(db, call.url, call.redirect_url)
            ru == IF dropped THEN u ELSE Slice(call.redirect_url, _MAX_URL_LENGTH)
        IN  /\ call.m.u = u
            /\ call.m.ru = ru
            /\ call.m.urls = {u, ru, normalize_url_lossy(u), normalize_url_lossy(ru)}
            /\ Cardinality(call.m.urls) <= 4
            /\ dropped => call.m.urls \subseteq {u, normalize_url_lossy(u)}

----------------------------------------------------------------------------
(* Claims about add_new_story, checked under Spec *)

\* the rows a table has gained
Added(old, new) == SubSeq(new, Len(old) + 1, Len(new))

\* no story of the store has the url, cut to 1024 characters, as url or guid
Absent(d, url) ==
    \A s \in Rows(d.stories) :
        /\ {s.url, s.guid} \cap {Slice(url, _MAX_URL_LENGTH)} = {}
        /\ {s.url, s.guid} \cap {StripNul(Slice(url, _MAX_URL_LENGTH))} = {}

\* what call c made of the store d, leaving e: one stories row with url =
\* guid = stored_url in the guessed medium, one feeds_stories_map row linking
\* it to the medium's Spider Feed, two stories_tags_map rows for it (the
\* spidered tag and a date guess tag) and one downloads row for it with
\* state 'success', sequence 1 and priority 1
C3_Effect(d, e, c, stored_url) ==
    LET story == c.ret.value[1]
        medium == guess_medium(d, Slice(c.url, _MAX_URL_LENGTH)).medium
        links == Added(d.feeds_stories_map, e.feeds_stories_map)
        tagged == Added(d.stories_tags_map, e.stories_tags_map)
        fetched == Added(d.downloads, e.downloads)
    IN  /\ Added(d.stories, e.stories) = <<story>>
        /\ story.url = stored_url /\ story.guid = stored_url
        /\ story.media_id = medium.media_id
        /\ Len(links) = 1
        /\ links[1].stories_id = story.stories_id
        /\ Cardinality(SpiderFeedSelect(e, medium)) = 1
        /\ \E f \in SpiderFeedSelect(e, medium) : links[1].feeds_id = f.feeds_id
        /\ Len(tagged) = 2
        /\ \A i \in 1..2 : tagged[i].stories_id = story.stories_id
        /\ \E i, j \in 1..2 :
               /\ e.tags[tagged[i].tags_id].tag = <<"spidered">>
               /\ e.tag_sets[e.tags[tagged[j].tags_id].tag_sets_id].name
                      \in {"date_guess_method", "date_invalid"}
        /\ Len(fetched) = 1
        /\ fetched[1].stories_id = story.stories_id
        /\ fetched[1].state = "success"
        /\ fetched[1].sequence = 1
        /\ fetched[1].priority = 1

\* C3 (as claimed): add_new_story on a url absent from the store adds one
\* stories row with url = guid = the url cut to 1024 characters, in the
\* guessed medium, one feeds_stories_map row to the medium's Spider Feed, two
\* stories_tags_map rows and one downloads row with state 'success',
\* sequence 1, priority 1.
C3_StoryHasCutUrl ==
    [][(call'.op = "add_new_story" /\ Absent(db, call'.url))
           => C3_Effect(db, db', call', Slice(call'.url, _MAX_URL_LENGTH))]_vars

\* C3 (amended): the same, with url = guid = the url cut to 1024 characters
\* and then stripped of its null characters.
C3_StoryHasCutStrippedUrl ==
    [][(call'.op = "add_new_story" /\ Absent(db, call'.url))
           => C3_Effect(db, db', call', StripNul(Slice(call'.url, _MAX_URL_LENGTH)))]_vars

\* C3 witness: a story was added for a url with a null character, absent
\* from the stories the store had before.
C3_Witness ==
    /\ call.op = "add_new_story"
    /\ call.ret.value[1].url # Slice(call.url, _MAX_URL_LENGTH)
    /\ \A s \in Rows(db.stories) :
           s.url = call.ret.value[1].url => s = call.ret.value[1]
    /\ \E f \in Rows(db.downloads) : f.stories_id = call.ret.value[1].stories_id

\* C5: no step deletes or changes a stories row, only add_new_story creates
\* one, and ignore_redirect, get_story_match and get_preferred_story leave
\* every table as it is.
C5_StoriesFrame ==
    [][/\ Len(db'.stories) >= Len(db.stories)
       /\ \A i \in 1..Len(db.stories) : db'.stories[i] = db.stories[i]
       /\ db'.stories # db.stories => call'.op = "add_new_story"
       /\ call'.op \in {"ignore_redirect", "get_story_match", "get_preferred_story"}
              => db' = db]_vars

\* C5 witness: a lookup that found nothing, made after a story was added to a
\* store that had one.
C5_Witness ==
    /\ call.op = "get_story_match"
    /\ call.stories = <<>>
    /\ Len(db.stories) >= 2
    /\ Len(db.downloads) >= 1

\* the tag set name and tag of the last stories_tags_map row of a story
LastTagOf(d, story) ==
    LET rows == {i \in 1..Len(d.stories_tags_map) :
                    d.stories_tags_map[i].stories_id = story.stories_id}
        last == d.stories_tags_map[CHOOSE i \in rows : \A j \in rows : j <= i]
    IN  [tag_set |-> d.tag_sets[d.tags[last.tags_id].tag_sets_id].name,
         tag |-> d.tags[last.tags_id].tag]

\* C7: the date guess tag of the story add_new_story made: found by url:
\* date_guess_method:guess_by_url; found by tag <name>:
\* date_guess_method:guess_by_tag_<name>; found otherwise:
\* date_guess_method:guess_by_unknown; not found, with a fallback date:
\* date_guess_method:fallback_date; not found, without:
\* date_invalid:date_invalid; a found date never gives fallback_date or
\* date_invalid.
C7_DateGuessTag ==
    call.op = "add_new_story" =>
        LET g == call.content.date_guess
            t == LastTagOf(db, call.ret.value[1])
            by_url == g.guess_method = <<"Extracted from ", "url">>
            by_tag == \E n \in TagNames : g.guess_method = ByTagMethod(n)
            other == g.guess_method = <<"Extracted from ", "text">>
        IN  /\ (g.found /\ by_url) => t = [tag_set |-> "date_guess_method", tag |-> <<"guess_by_url">>]
            /\ \A n \in TagNames :
                   (g.found /\ g.guess_method = ByTagMethod(n))
                       => t = [tag_set |-> "date_guess_method", tag |-> <<"guess_by_tag_">> \o n]
            /\ (g.found /\ other) => t = [tag_set |-> "date_guess_method", tag |-> <<"guess_by_unknown">>]
            /\ (~g.found /\ call.fallback_date # None)
                   => t = [tag_set |-> "date_guess_method", tag |-> <<"fallback_date">>]
            /\ (~g.found /\ call.fallback_date = None)
                   => t = [tag_set |-> "date_invalid", tag |-> <<"date_invalid">>]
            /\ g.found => t.tag \notin {<<"fallback_date">>, <<"date_invalid">>}

\* C7 witness: a story whose date was found in an h1 tag, added with a
\* fallback date, has the tag guess_by_tag_h1.
C7_Witness ==
    /\ call.op = "add_new_story"
    /\ call.content.date_guess.guess_method = ByTagMethod(<<"h", "1">>)
    /\ call.fallback_date # None
    /\ LastTagOf(db, call.ret.value[1]).tag = <<"guess_by_tag_", "h", "1">>

----------------------------------------------------------------------------
(* get_preferred_story over media with duplicates, SpecSelect *)

\* stores for the choice among stories: three media, any of them a duplicate
\* of another, three stories with up to MaxSentences sentences each
SelectStores ==
    {Store(<<MediumRow(1, UrlA, dup[1], FALSE), MediumRow(2, UrlB, dup[2], FALSE),
             MediumRow(3, UrlA, dup[3], FALSE)>>,
           <<StoryRow(1, UrlA, UrlA, of[1]), StoryRow(2, UrlB, UrlB, of[2]),
             StoryRow(3, UrlUpper, UrlUpper, of[3])>>,
           SentenceRows(counts), {}, {}) :
        dup \in {f \in [1..3 -> {NULL} \cup (1..3)] : \A i \in 1..3 : f[i] # i},
        of \in [1..3 -> 2..3],
        counts \in [1..3 -> 0..MaxSentences]}

InitSelect ==
    /\ db \in SelectStores
    /\ call = NoCall
    /\ worker = [w \in Workers |-> Idle]

NextSelect == GetPreferredStory(MaxCands)

SpecSelect == InitSelect /\ [][NextSelect]_vars

\* the key of C2 of medium m among the candidates
C2_Key(d, m, stories) ==
    << IF \E x \in Rows(d.media) : x.media_id # m.media_id /\ x.dup_media_id = m.media_id
       THEN 0 ELSE 1,
       IF m.dup_media_id = NULL THEN 0 ELSE 1,
       IF \E i \in 1..Len(stories) :
              get_url_distinctive_domain(stories[i].url) = get_url_distinctive_domain(m.url)
       THEN 0 ELSE 1,
       m.media_id >>

\* key a is not after key b
C2_NotAfter(a, b) ==
    \/ a[1] < b[1]
    \/ a[1] = b[1] /\ a[2] < b[2]
    \/ a[1] = b[1] /\ a[2] = b[2] /\ a[3] < b[3]
    \/ a[1] = b[1] /\ a[2] = b[2] /\ a[3] = b[3] /\ a[4] <= b[4]

\* C2: of two or more candidates get_preferred_story returns one of the
\* medium that is least, among the media of the candidates, by (0 if a
\* duplicate target else 1, 0 if without dup_media_id else 1, 0 if its
\* domain is that of a candidate's url else 1, media_id); a duplicate target
\* is chosen over a medium that is none.
C2_PreferredMedium ==
    (call.op = "get_preferred_story" /\ Len(call.stories) >= 2) =>
        /\ call.ret.status = "ok"
        /\ \E i \in 1..Len(call.stories) : call.ret.value[1] = call.stories[i]
        /\ \A i \in 1..Len(call.stories) :
               LET chosen == db.media[call.ret.value[1].media_id]
                   other == db.media[call.stories[i].media_id]
               IN  /\ C2_NotAfter(C2_Key(db, chosen, call.stories), C2_Key(db, other, call.stories))
                   /\ C2_Key(db, other, call.stories)[1] = 0
                          => C2_Key(db, chosen, call.stories)[1] = 0

\* C2 witness: the story of a duplicate target was preferred to a story of a
\* medium with a lower media_id that is no duplicate target.
C2_Witness ==
    /\ call.op = "get_preferred_story"
    /\ Len(call.stories) >= 2
    /\ \E x \in Rows(db.media) : x.dup_media_id = call.ret.value[1].media_id
    /\ \E i \in 1..Len(call.stories) :
           /\ call.stories[i].media_id < call.ret.value[1].media_id
           /\ \A x \in Rows(db.media) : x.dup_media_id # call.stories[i].media_id

\* the candidates of the medium of the story returned, in candidate order
C10_OfMedium(c) ==
    LET Test(s) == s.media_id = c.ret.value[1].media_id
    IN  SelectSeq(c.stories, Test)

\* the candidates of the medium with the most sentences
C10_Most(d, c) ==
    LET of == C10_OfMedium(c)
    IN  {i \in 1..Len(of) :
            \A j \in 1..Len(of) : SentenceCount(d, of[j].stories_id) <= SentenceCount(d, of[i].stories_id)}

----------------------------------------------------------------------------
(* get_spider_feed called by concurrent workers, SpecSpider: the select and *)
(* the create of a call are two operations on the store, and operations of  *)
(* other workers may come between them.                                      *)

SpiderStores ==
    {Store(<<MediumRow(1, UrlA, NULL, FALSE), MediumRow(2, UrlB, NULL, FALSE)>>,
           <<>>, {}, {}, {})}

InitSpider ==
    /\ db \in SpiderStores
    /\ call = NoCall
    /\ worker = [w \in Workers |-> Idle]

\* a worker calls get_spider_feed for a medium: the select, and the return
\* of the row it found
SpiderSelect(w) ==
    /\ worker[w].pc = "idle"
    /\ \E medium \in Rows(db.media) :
           IF SpiderFeedSelect(db, medium) # {}
           THEN \E feed \in SpiderFeedSelect(db, medium) :
                    worker' = [worker EXCEPT ![w] = [pc |-> "idle", media_id |-> medium.media_id,
                                                     ret |-> <<feed>>]]
           ELSE worker' = [worker EXCEPT ![w] = [pc |-> "create", media_id |-> medium.media_id,
                                                 ret |-> <<>>]]
    /\ UNCHANGED <<db, call>>

\* the worker found no row: the create, and the return of the row created
SpiderCreate(w) ==
    /\ worker[w].pc = "create"
    /\ LET out == SpiderFeedCreate(db, db.media[worker[w].media_id])
       IN  /\ db' = out.db
           /\ worker' = [worker EXCEPT ![w] = [pc |-> "idle", media_id |-> worker[w].media_id,
                                               ret |-> <<out.feed>>]]
    /\ UNCHANGED call

NextSpider == \E w \in Workers : SpiderSelect(w) \/ SpiderCreate(w)

SpecSpider == InitSpider /\ [][NextSpider]_vars

\* C4 (as claimed): whatever calls of get_spider_feed the workers have made,
\* the feeds table holds at most one Spider Feed of a medium, and a call
\* that has returned has returned that row.
C4_OneSpiderFeed ==
    /\ \A medium \in Rows(db.media) : Cardinality(SpiderFeedSelect(db, medium)) <= 1
    /\ \A w \in Workers :
           worker[w].ret # <<>> =>
               SpiderFeedSelect(db, db.media[worker[w].media_id]) = {worker[w].ret[1]}

====
